---- MODULE Spec2Model ----
(***************************************************************************)
(* Model of the orders microservice (src/Controllers/orderController.js,   *)
(* src/Models/order.js).  Every request is an async handler; each `await`  *)
(* is a suspension point, so a handler is a sequence of atomic steps, one  *)
(* per resumption.  The sub-tasks created by `items.map(async ...)` are    *)
(* resumed independently and joined with Promise.all.                      *)
(*                                                                         *)
(* Encoding of JavaScript values:                                          *)
(*   - an optional number is a sequence: << >> is undefined / not a        *)
(*     number, <<n>> is the number n;                                      *)
(*   - an absent string is "" (falsy, like undefined);                     *)
(*   - an order_number (schema type String) is its sequence of decimal     *)
(*     digits, << >> being absent;                                         *)
(*   - an order id is a sequence: << >> absent, <<0>> a malformed string,  *)
(*     <<n>> with n >= 1 a well-formed ObjectId.                           *)
(***************************************************************************)
EXTENDS Integers, Sequences, FiniteSets, TLC

VARIABLES
    orders,     \* the Order collection: a set of persisted documents
    nextId,     \* number of ObjectIds generated so far
    rq,         \* per request slot: the handler's position and locals
    created,    \* history: order numbers of the orders saved, in save order
    deleted,    \* history: ids of the orders RemoveOrder has deleted
    natural     \* ids of the stored documents, in the order of their insertion

vars == <<orders, nextId, rq, created, deleted, natural>>

\* ---------------------------------------------------------------- bounds
NumReqs == 2
MaxItems == 2
MaxIds == 2
SumItems == 3
MaxCreates == 3

Reqs == 1..NumReqs

\* ------------------------------------------------- remote collaborators
\* The sibling services answer a lookup with the record they hold for the
\* id (or the call fails).  The records are those of the spec's concrete
\* scenario plus records that exercise each validation branch.
ProductCatalog(id) ==
    CASE id = "P1" -> [name |-> "Widget", price |-> <<5>>, stock |-> 10]
      [] id = "P2" -> [name |-> "Gadget", price |-> <<3>>, stock |-> 1]
      [] id = "P4" -> [name |-> "Refund", price |-> <<-3>>, stock |-> 7]
      [] OTHER     -> [name |-> "Broken", price |-> << >>, stock |-> 5]

ServiceCatalog(id) ==
    CASE id = "S1" -> [name |-> "Repair", price |-> <<4>>]
      [] OTHER     -> [name |-> "Unpriced", price |-> << >>]

ClientData(id) == [name |-> "Ann", email |-> "a@x.com", phone |-> "555"]

StoreData(id) == [_id |-> id, name |-> "Shop", address |-> "1 Main St"]

\* Outcomes of a remote call or a store operation.
Outcomes == {"ok", "error"}
LookupOutcomes == {"ok", "empty", "error"}

\* --------------------------------------------------------------- inputs
NoItem == [productId |-> "", serviceId |-> "", quantity |-> << >>]

ItemSet ==
    { [productId |-> "P1", serviceId |-> "",   quantity |-> <<2>>],
      [productId |-> "P2", serviceId |-> "",   quantity |-> <<2>>],
      [productId |-> "",   serviceId |-> "S1", quantity |-> <<2>>],
      [productId |-> "P1", serviceId |-> "",   quantity |-> <<0>>],
      [productId |-> "P3", serviceId |-> "",   quantity |-> <<1>>],
      [productId |-> "P4", serviceId |-> "",   quantity |-> <<1>>],
      [productId |-> "P1", serviceId |-> "S1", quantity |-> <<1>>],
      NoItem }

ItemLists == UNION { [1..n -> ItemSet] : n \in 0..MaxItems }

\* req.body.items: missing, a value that is not an array, or an array.
ItemsValues ==
    { [kind |-> "missing", list |-> << >>], [kind |-> "notarray", list |-> << >>] }
    \cup { [kind |-> "array", list |-> l] : l \in ItemLists }

\* A request body.  order_number is only read by editOrder's patch; _id is
\* an order id the caller puts in the body (<< >> when it sends none).
CreateBodies ==
    [ _id : {<< >>}, createdAt : {<< >>},
      items : ItemsValues,
      clientId : {"", "C1"},
      storeId : {"", "T1"},
      paymentType : {"", "card"},
      total : {<< >>, <<99>>},
      order_number : {<< >>} ]

NoBody ==
    [ _id |-> << >>, createdAt |-> << >>, items |-> [kind |-> "missing", list |-> << >>], clientId |-> "",
      storeId |-> "", paymentType |-> "", total |-> << >>,
      order_number |-> << >> ]

\* ------------------------------------------------------- pure functions
\* String(n) for a non-negative integer: the schema casts order_number,
\* a Number in the handler, to String.
RECURSIVE NumToString(_)
NumToString(n) ==
    IF n < 10 THEN <<n>> ELSE NumToString(n \div 10) \o <<n % 10>>

RECURSIVE StringToNum(_)
StringToNum(s) ==
    IF s = << >> THEN 0
    ELSE 10 * StringToNum(SubSeq(s, 1, Len(s) - 1)) + s[Len(s)]

\* A query-string value is a sequence of characters (<< >> when the
\* parameter is absent): 0..9 are the decimal digits, Plus and Minus the
\* signs, Space a white-space character, LetterX the letter x in either
\* case, HexA..HexA+5 the letters a..f in either case, and NonDigit any
\* other character.
NonDigit == 10
Plus == 11
Minus == 12
Space == 13
LetterX == 14
HexA == 15

\* The value of a character as a digit; 16 when it is a digit in no radix.
DigitValue(c) ==
    IF c <= 9 THEN c
    ELSE IF c >= HexA /\ c <= HexA + 5 THEN c - HexA + 10
    ELSE 16

RECURSIVE TrimLeft(_)
TrimLeft(s) ==
    IF s = << >> THEN << >>
    ELSE IF Head(s) = Space THEN TrimLeft(Tail(s))
    ELSE s

\* The longest prefix of s made of digits of the radix.
RECURSIVE RadixPrefix(_, _)
RadixPrefix(s, radix) ==
    IF s = << >> THEN << >>
    ELSE IF DigitValue(Head(s)) >= radix THEN << >>
    ELSE <<Head(s)>> \o RadixPrefix(Tail(s), radix)

RECURSIVE RadixToNum(_, _)
RadixToNum(s, radix) ==
    IF s = << >> THEN 0
    ELSE radix * RadixToNum(SubSeq(s, 1, Len(s) - 1), radix)
         + DigitValue(s[Len(s)])

\* parseInt(s) with no radix: leading white space is skipped, a sign is
\* read, a 0x prefix selects radix 16, and the number is the one written
\* by the longest prefix of digits of the radix; NaN (<< >>) when there is
\* no such digit.
ParseInt(s) ==
    LET t == TrimLeft(s)
        signed == IF t = << >> THEN FALSE ELSE Head(t) \in {Plus, Minus}
        negative == IF signed THEN Head(t) = Minus ELSE FALSE
        u == IF signed THEN Tail(t) ELSE t
        hex == IF Len(u) >= 2 THEN u[1] = 0 /\ u[2] = LetterX ELSE FALSE
        radix == IF hex THEN 16 ELSE 10
        digits == RadixPrefix(IF hex THEN SubSeq(u, 3, Len(u)) ELSE u, radix)
    IN  IF digits = << >> THEN << >>
        ELSE IF negative THEN <<0 - RadixToNum(digits, radix)>>
        ELSE <<RadixToNum(digits, radix)>>

\* x || d for a number x: d when x is NaN or 0.
OrDefault(x, d) == IF x = << >> THEN d ELSE IF x[1] = 0 THEN d ELSE x[1]

\* Math.ceil(a / b) for a >= 0, b # 0
CeilDiv(a, b) ==
    IF b > 0 THEN (a + b - 1) \div b ELSE 0 - (a \div (0 - b))

\* typeof x === 'number' && !isNaN(x)
IsNumber(x) == x # << >>

\* quantity: typeof quantity === 'number' && !isNaN(quantity) && quantity > 0
ValidQuantity(q) == IsNumber(q) /\ q[1] > 0

\* Faulty variant: the guard without its length test.
ItemsValidAnyArray(items) == items.kind = "array"

\* The guard of createOrder on req.body.items.
ItemsValid(items) == items.kind = "array" /\ Len(items.list) > 0

\* Faulty variant: the join waits for every promise and ignores rejections
\* (Promise.allSettled).
PromiseAllSettled(sts) ==
    IF \E i \in DOMAIN sts : sts[i] = "pending" THEN "pending" ELSE "fulfilled"

\* Faulty variant: the join is fulfilled as soon as one promise is
\* (Promise.any).
PromiseAny(sts) ==
    IF \E i \in DOMAIN sts : sts[i] = "fulfilled" THEN "fulfilled"
    ELSE IF \A i \in DOMAIN sts : sts[i] = "rejected" THEN "rejected"
    ELSE "pending"

\* Faulty variant: only the first promise of the list is awaited.
PromiseFirst(sts) == IF sts = << >> THEN "fulfilled" ELSE sts[1]

\* Promise.all over a sequence of promise states.
PromiseAll(sts) ==
    IF \E i \in DOMAIN sts : sts[i] = "rejected" THEN "rejected"
    ELSE IF \A i \in DOMAIN sts : sts[i] = "fulfilled" THEN "fulfilled"
    ELSE "pending"

\* ------------------------------------------------------ IEEE-754 doubles
\* A JavaScript number that is not a small integer is modelled as the
\* binary64 value it is: a finite non-negative double is the set of the
\* positions of its 1 bits (position k weighs 2^k), so 0 is {} and 1 is
\* {0}.  A double has at most 53 significant bits.
Precision == 53

\* The exact sum of two non-negative binary numbers: the bits that differ,
\* plus the carries one position up.
RECURSIVE ExactAdd(_, _)
ExactAdd(a, b) ==
    IF b = {} THEN a
    ELSE ExactAdd((a \cup b) \ (a \cap b), { k + 1 : k \in a \cap b })

\* The exact product: one shifted copy of a per 1 bit of b.
RECURSIVE ExactMul(_, _)
ExactMul(a, b) ==
    IF b = {} THEN {}
    ELSE LET k == CHOOSE x \in b : TRUE
         IN  ExactAdd({ j + k : j \in a }, ExactMul(a, b \ {k}))

TopBit(a) == CHOOSE k \in a : \A j \in a : j <= k

\* Round to nearest, ties to even, at 53 significant bits.
RoundToDouble(a) ==
    IF a = {} THEN {}
    ELSE LET cut == TopBit(a) - (Precision - 1)
             kept == { k \in a : k >= cut }
             up == /\ (cut - 1) \in a
                   /\ \/ cut \in a
                      \/ \E k \in a : k < cut - 1
         IN  IF up THEN ExactAdd(kept, {cut}) ELSE kept

\* a + b and a * b on numbers
DoubleAdd(a, b) == RoundToDouble(ExactAdd(a, b))
DoubleMul(a, b) == RoundToDouble(ExactMul(a, b))

\* The double that is the integer n >= 0.
RECURSIVE BitsFrom(_, _)
BitsFrom(n, k) ==
    IF n = 0 THEN {}
    ELSE (IF n % 2 = 1 THEN {k} ELSE {}) \cup BitsFrom(n \div 2, k + 1)

IntToDouble(n) == BitsFrom(n, 0)

\* The doubles the JSON literals 0.1, 0.2 and 0.3 parse to:
\* 0x1.999999999999ap-4, 0x1.999999999999ap-3, 0x1.3333333333333p-2.
Tenth == { -4 - 4 * k : k \in 0..12 } \cup { -5 - 4 * k : k \in 0..12 } \cup {-55}
Fifth == { k + 1 : k \in Tenth }
ThreeTenths == {-2} \cup { -5 - 4 * k : k \in 0..12 } \cup { -6 - 4 * k : k \in 0..12 }

\* The products service's records for products priced in fractions of the currency unit.
FractionCatalog(id) ==
    CASE id = "D1" -> [name |-> "Dime", price |-> Tenth]
      [] id = "D2" -> [name |-> "Fifth", price |-> Fifth]
      [] OTHER     -> [name |-> "Third", price |-> ThreeTenths]

\* ---------------------------------------------------------- credentials
\* An Authorization header is the sequence of its space-separated words
\* (<< >> when the header is absent): the scheme, then the token.  A token
\* is the payload it carries and whether its signature verifies under
\* process.env.SECRET.
AdminToken == [sub |-> "u1", role |-> 3, valid |-> TRUE]
ClientToken == [sub |-> "u2", role |-> 1, valid |-> TRUE]
ForgedToken == [sub |-> "u1", role |-> 3, valid |-> FALSE]

\* The header of a caller holding a valid token.
Credential == <<"Bearer", AdminToken>>

\* Headers of incoming requests: absent, a scheme without a token, a token
\* that does not verify, valid tokens, and a valid token under another
\* scheme word.
Headers ==
    { << >>, <<"Bearer">>, <<"Bearer", ForgedToken>>, <<"Bearer", ClientToken>>,
      Credential, <<"Basic", AdminToken>> }

\* ------------------------------------------------------------- call log
\* The remote calls a request has issued (`sent`) and those that were
\* answered (`answered`): the kind of call, the index of the item it is
\* for (0 for the client and the store), and the number of the attempt.
Logged(log, call, item) ==
    Cardinality({ e \in log : e.call = call /\ e.item = item })

\* axios.get / axios.put with the given Authorization header (<< >> when
\* the call passes no headers).
Send(log, call, item, authorization) ==
    log \cup { [ call |-> call, item |-> item,
                 attempt |-> Logged(log, call, item) + 1,
                 authorization |-> authorization ] }

\* One call per element of `calls` (records with call and authorization),
\* except where the element's call is "none".
SendAll(log, calls) ==
    log \cup { [ call |-> calls[i].call, item |-> i,
                 attempt |-> Logged(log, calls[i].call, i) + 1,
                 authorization |-> calls[i].authorization ] :
               i \in { j \in DOMAIN calls : calls[j].call # "none" } }

\* The awaited call returned with the given outcome.
Answer(log, call, item, out) ==
    log \cup { [ call |-> call, item |-> item,
                 attempt |-> Logged(log, call, item) + 1,
                 outcome |-> out ] }

\* ------------------------------------------------------- handler locals
IdleReq ==
    [ handler |-> "none", pc |-> "idle", body |-> NoBody, id |-> << >>,
      client |-> << >>, store |-> << >>, total |-> 0, items |-> << >>,
      orderCount |-> 0, newOrder |-> << >>, savedOrder |-> << >>,
      stocks |-> << >>, recon |-> << >>, status |-> 0, remoteCalls |-> {},
      storeOps |-> {}, findFault |-> FALSE,
      query |-> [page |-> << >>, limit |-> << >>], page |-> 0, limit |-> 0,
      listing |-> << >>, route |-> "", header |-> << >>, now |-> 0,
      sent |-> {}, answered |-> {}, totalDouble |-> {}, responses |-> 0,
      stockData |-> << >>, updatedStocks |-> << >> ]

\* A sub-task of the request (an item lookup or a stock call) is in flight.
SubTaskPending(q) ==
    \/ \E i \in DOMAIN q.items : q.items[i].st = "pending"
    \/ \E i \in DOMAIN q.stocks : q.stocks[i] = "pending"


\* res.status(code).json(...)
Respond(q, code) ==
    [q EXCEPT !.pc = "done", !.status = code, !.responses = @ + 1]

Init ==
    /\ orders = {}
    /\ nextId = 0
    /\ rq = [r \in Reqs |-> IdleReq]
    /\ created = << >>
    /\ deleted = {}
    /\ natural = << >>

\* ------------------------------------------------------------ createOrder
\* Faulty variant: an item with neither id is passed through instead of thrown on.
ItemTaskNoThrow(item) ==
    [ productId |-> item.productId, serviceId |-> item.serviceId,
      quantity |-> item.quantity, name |-> "", price |-> << >>,
      call |-> IF item.productId # "" THEN "product"
               ELSE IF item.serviceId # "" THEN "service" ELSE "none",
      resolved |-> FALSE, priced |-> FALSE,
      st |-> IF item.productId # "" \/ item.serviceId # ""
             THEN "pending" ELSE "fulfilled" ]

\* The state of one `itemDetailsPromises` sub-task right after the map has
\* run its synchronous part: the lookup is in flight, or the item has no id
\* and the sub-task has already thrown.
ItemTask(item) ==
    [ productId |-> item.productId, serviceId |-> item.serviceId,
      quantity |-> item.quantity, name |-> "", price |-> << >>,
      call |-> IF item.productId # "" THEN "product"
               ELSE IF item.serviceId # "" THEN "service" ELSE "none",
      resolved |-> FALSE, priced |-> FALSE,
      st |-> IF item.productId # "" \/ item.serviceId # ""
             THEN "pending" ELSE "rejected" ]

\* Faulty variant: a missing price is read as 0 (`price = entry.price || 0`).
ItemResolvedCoerce(t, out) ==
    IF out = "error" THEN [t EXCEPT !.st = "rejected"]
    ELSE LET entry == IF t.call = "product" THEN ProductCatalog(t.productId)
                      ELSE ServiceCatalog(t.serviceId)
             price == IF entry.price = << >> THEN <<0>> ELSE entry.price
             got == [t EXCEPT !.resolved = TRUE, !.name = entry.name,
                                !.price = price]
         IN  IF t.call = "product" /\ ~ValidQuantity(t.quantity)
             THEN [got EXCEPT !.st = "rejected"]
             ELSE [got EXCEPT !.st = "fulfilled", !.priced = TRUE]

\* The lookup of a sub-task returned: the rest of the async callback.
ItemResolved(t, out) ==
    IF out = "error" THEN [t EXCEPT !.st = "rejected"]
    ELSE LET entry == IF t.call = "product" THEN ProductCatalog(t.productId)
                      ELSE ServiceCatalog(t.serviceId)
             got == [t EXCEPT !.resolved = TRUE, !.name = entry.name,
                                !.price = entry.price]
         IN  IF ~IsNumber(entry.price) THEN [got EXCEPT !.st = "rejected"]
             ELSE IF t.call = "product" /\ ~ValidQuantity(t.quantity)
             THEN [got EXCEPT !.st = "rejected"]
             ELSE [got EXCEPT !.st = "fulfilled", !.priced = TRUE]

\* What a fulfilled sub-task added to `total`.
ItemSubtotal(t) ==
    IF t.call = "product" THEN t.price[1] * t.quantity[1] ELSE t.price[1]

\* The element of itemsWithDetails a sub-task returns.
ItemDetails(t) ==
    [ productId |-> t.productId, serviceId |-> t.serviceId,
      quantity |-> t.quantity, name |-> t.name, price |-> t.price ]

States(tasks) == [i \in DOMAIN tasks |-> tasks[i].st]

\* The document built from the handler's locals, with the given total and
\* order number.  createdAt is the one the body carries, or else the
\* schema default Date.now, read here from a logical clock (q.now).
OrderDoc(q, oid, total, number) ==
    [ _id |-> oid,
      items |-> [i \in DOMAIN q.items |-> ItemDetails(q.items[i])],
      total |-> total,
      client |-> [ _id |-> q.body.clientId, name |-> q.client[1].name,
                   email |-> q.client[1].email, phone |-> q.client[1].phone ],
      store |-> [ _id |-> q.store[1]._id, name |-> q.store[1].name,
                  address |-> q.store[1].address ],
      paymentType |-> q.body.paymentType,
      createdAt |-> IF q.body.createdAt # << >> THEN q.body.createdAt[1]
                    ELSE q.now,
      order_number |-> NumToString(number) ]

\* Faulty variant: the body is spread last, so a total sent by the caller wins.
NewOrderBodyTotal(q, oid) ==
    OrderDoc(q, oid, IF q.body.total # << >> THEN q.body.total[1] ELSE q.total,
             q.orderCount + 1)

\* Faulty variant: the order number is the count, not the count plus one.
NewOrderNoIncrement(q, oid) == OrderDoc(q, oid, q.total, q.orderCount)

\* Faulty variant: the order number comes from a sequence the store hands out
\* atomically (here the id counter), not from the count read earlier.
NewOrderFromSequence(q, oid) == OrderDoc(q, oid, q.total, oid[1])

\* new Order({...req.body, items, total, client, store, order_number}):
\* the fields named after the spread replace those of the body, and
\* order_number is orderCount + 1.
NewOrder(q, oid) == OrderDoc(q, oid, q.total, q.orderCount + 1)

\* The _id of a document built by `new Order({...req.body, ...})`: the
\* one the body carries, or else the ObjectId generated for the document.
DocId(body, fresh) == IF body._id # << >> THEN body._id ELSE <<fresh>>

\* Mongoose validation of a document against OrderSchema (required paths).
SchemaValid(doc) ==
    /\ doc.paymentType # ""
    /\ doc.order_number # << >>
    /\ doc.client._id # "" /\ doc.client.name # ""
    /\ doc.client.email # "" /\ doc.client.phone # ""
    /\ doc.store._id # "" /\ doc.store.name # "" /\ doc.store.address # ""
    /\ \A i \in DOMAIN doc.items :
          doc.items[i].productId # "" => doc.items[i].quantity # << >>

\* Faulty variant: order_number carries no unique index.
NoUniqueIndex(coll, doc) == FALSE

\* The unique index on order_number rejects a write that would give two
\* documents the same order number.
DuplicateKey(coll, doc) ==
    \E o \in coll : o._id # doc._id /\ o.order_number = doc.order_number

\* Faulty variant: the quantity as sent, without the `|| 1` default.
QuantityGiven(q) == IF q = << >> THEN 0 ELSE q[1]

\* const quantityUsed = item.quantity || 1
QuantityUsed(q) == IF q = << >> \/ q[1] = 0 THEN 1 ELSE q[1]

\* The call one reconciliation sub-task of createOrder issues for an item:
\* a stock PUT carrying quantityUsed for an item with a productId, nothing
\* (`return null`) for any other item.
StockCall(t) ==
    IF t.productId # ""
    THEN [call |-> "stock", newQuantity |-> QuantityUsed(t.quantity)]
    ELSE [call |-> "none", newQuantity |-> 0]

\* updateStockPromises right after the map: a PUT is in flight for every
\* item with a productId; the others have returned null.
StockTask(t) == IF t.productId # "" THEN "pending" ELSE "fulfilled"

Settled(r) == rq[r].pc \in {"idle", "done"} /\ ~SubTaskPending(rq[r])

CreateStart(r, header, body) ==
    /\ Settled(r)
    /\ IF body._id = << >> THEN TRUE ELSE body._id[1] <= nextId
    /\ LET q == [IdleReq EXCEPT !.handler = "createOrder", !.body = body,
                                !.header = header]
       IN  IF ~ItemsValid(body.items) \/ body.clientId = "" \/ body.storeId = ""
           THEN rq' = [rq EXCEPT ![r] = Respond(q, 500)]
           ELSE rq' = [rq EXCEPT ![r] =
                  [q EXCEPT !.pc = "client",
                            !.remoteCalls = {"client"},
                            !.sent = Send({}, "client", 0, header)]]
    /\ UNCHANGED <<orders, nextId, created, deleted, natural>>

CreateClientReturn(r, out) ==
    /\ rq[r].handler = "createOrder" /\ rq[r].pc = "client"
    /\ LET q == [rq[r] EXCEPT !.answered = Answer(@, "client", 0, out)]
       IN  IF out = "error"
           THEN rq' = [rq EXCEPT ![r] = Respond(q, 500)]
           ELSE rq' = [rq EXCEPT ![r] =
                  [q EXCEPT !.client = IF out = "ok"
                                       THEN <<ClientData(q.body.clientId)>>
                                       ELSE << >>,
                            !.pc = "store",
                            !.remoteCalls = @ \cup {"store"},
                            !.sent = Send(@, "store", 0, q.header)]]
    /\ UNCHANGED <<orders, nextId, created, deleted, natural>>

CreateStoreReturn(r, out) ==
    /\ rq[r].handler = "createOrder" /\ rq[r].pc = "store"
    /\ LET q == [rq[r] EXCEPT !.answered = Answer(@, "store", 0, out)]
           store == IF out = "ok" THEN <<StoreData(q.body.storeId)>> ELSE << >>
           tasks == [i \in DOMAIN q.body.items.list |->
                        ItemTask(q.body.items.list[i])]
           issued == {tasks[i].call : i \in DOMAIN tasks} \ {"none"}
           lookups == [i \in DOMAIN tasks |->
                         [call |-> tasks[i].call, authorization |-> q.header]]
           mapped == [q EXCEPT !.store = store, !.items = tasks,
                               !.remoteCalls = @ \cup issued,
                               !.sent = SendAll(@, lookups)]
       IN  IF out = "error"
           THEN rq' = [rq EXCEPT ![r] = Respond(q, 500)]
           ELSE IF q.client = << >> \/ store = << >>
           THEN rq' = [rq EXCEPT ![r] = Respond([q EXCEPT !.store = store], 500)]
           ELSE IF PromiseAll(States(tasks)) = "rejected"
           THEN rq' = [rq EXCEPT ![r] = Respond(mapped, 500)]
           ELSE rq' = [rq EXCEPT ![r] = [mapped EXCEPT !.pc = "items"]]
    /\ UNCHANGED <<orders, nextId, created, deleted, natural>>

CreateItemReturn(r, i, out) ==
    /\ rq[r].handler = "createOrder"
    /\ i \in DOMAIN rq[r].items /\ rq[r].items[i].st = "pending"
    /\ LET q == [rq[r] EXCEPT
                   !.answered = Answer(@, rq[r].items[i].call, i, out)]
           t == ItemResolved(q.items[i], out)
           q1 == [q EXCEPT !.items[i] = t,
                           !.total = IF t.priced THEN @ + ItemSubtotal(t) ELSE @]
           all == PromiseAll(States(q1.items))
       IN  IF q.pc # "items" \/ all = "pending"
           THEN rq' = [rq EXCEPT ![r] = q1]
           ELSE IF all = "rejected"
           THEN rq' = [rq EXCEPT ![r] = Respond(q1, 500)]
           ELSE rq' = [rq EXCEPT ![r] =
                         [q1 EXCEPT !.pc = "count",
                                    !.storeOps = @ \cup {"count"}]]
    /\ UNCHANGED <<orders, nextId, created, deleted, natural>>

\* `cap` bounds the number of documents constructed.
CreateCountReturn(r, out, cap) ==
    /\ rq[r].handler = "createOrder" /\ rq[r].pc = "count"
    /\ LET q == rq[r]
           q1 == [q EXCEPT !.orderCount = Cardinality(orders),
                           !.now = nextId + 1]
       IN  IF out = "error"
           THEN /\ rq' = [rq EXCEPT ![r] = Respond(q, 500)]
                /\ UNCHANGED nextId
           ELSE /\ nextId < cap
                /\ nextId' = nextId + 1
                /\ rq' = [rq EXCEPT ![r] =
                       [q1 EXCEPT !.newOrder =
                                    <<NewOrder(q1, DocId(q1.body, nextId + 1))>>,
                                  !.pc = "save",
                                  !.storeOps = @ \cup {"save"}]]
    /\ UNCHANGED <<orders, created, deleted, natural>>

\* stock.data of a served PUT /stock/<productId>: the stock service's
\* record for the product and the quantity it was sent.
StockData(productId, newQuantity) ==
    [productId |-> productId, newQuantity |-> newQuantity]

\* Faulty variant: the null results are dropped from the list.
PromiseValuesCompact(values) == SelectSeq(values, LAMBDA v : v # << >>)

\* The value `await Promise.all(promises)` gives once every promise is
\* fulfilled: the promises' values, in the order of the promises.  A
\* value is a sequence, << >> being null.
PromiseAllValues(values) == values

\* res.json({ status: 200, message, data: { order, stocks } })
RespondCreated(q) ==
    Respond([q EXCEPT !.updatedStocks = PromiseAllValues(q.stockData)], 200)

\* The rest of createOrder once the order is saved: the stock calls are
\* issued and joined.
Reconcile(q) ==
    LET stocks == [i \in DOMAIN q.items |-> StockTask(q.items[i])]
        calls == [i \in DOMAIN q.items |->
                    [call |-> StockCall(q.items[i]).call,
                     authorization |-> q.header]]
        q1 == [q EXCEPT !.stocks = stocks,
                 !.stockData = [i \in DOMAIN q.items |-> << >>],
                 !.recon = [i \in DOMAIN q.items |-> StockCall(q.items[i])],
                 !.sent = SendAll(@, calls),
                 !.remoteCalls = IF \E i \in DOMAIN stocks : stocks[i] = "pending"
                                 THEN @ \cup {"stock"} ELSE @]
    IN  IF PromiseAll(stocks) = "fulfilled" THEN RespondCreated(q1)
        ELSE [q1 EXCEPT !.pc = "recon"]

\* Faulty variant: the save is not awaited inside the try block, so its failure
\* does not stop the handler.
AfterSaveUnchecked(q, failed) ==
    Reconcile(IF failed THEN q ELSE [q EXCEPT !.savedOrder = q.newOrder])

\* `await newOrder.save()` inside the try block: a rejected save goes to
\* the catch clause, a fulfilled one to the reconciliation.
AfterSave(q, failed) ==
    IF failed THEN Respond(q, 500)
    ELSE Reconcile([q EXCEPT !.savedOrder = q.newOrder])

\* The _id index rejects the insert of a document whose _id is stored.
DuplicateId(coll, doc) == \E o \in coll : o._id = doc._id

SaveFails(coll, doc, out) ==
    \/ out = "error" \/ ~SchemaValid(doc)
    \/ DuplicateKey(coll, doc) \/ DuplicateId(coll, doc)

CreateSaveReturn(r, out) ==
    /\ rq[r].handler = "createOrder" /\ rq[r].pc = "save"
    /\ LET q == rq[r]
           doc == q.newOrder[1]
           failed == SaveFails(orders, doc, out)
       IN  /\ rq' = [rq EXCEPT ![r] = AfterSave(q, failed)]
           /\ orders' = IF failed THEN orders ELSE orders \cup {doc}
           /\ created' = IF failed THEN created
                         ELSE Append(created, doc.order_number)
           /\ natural' = IF failed THEN natural ELSE Append(natural, doc._id)
    /\ UNCHANGED <<nextId, deleted>>

\* Faulty variant: a failed PUT is attempted again.
StockOutcomeRetry(out) == IF out = "ok" THEN "fulfilled" ELSE "pending"

\* One stock sub-task once its PUT returned: `return stock.data`, or the
\* inner catch rethrows "Error updating products stock".
StockOutcome(out) == IF out = "ok" THEN "fulfilled" ELSE "rejected"

\* Faulty variant: the catch clause removes the order the request saved.
CreateCatchRollback(coll, q) ==
    { o \in coll : q.savedOrder = << >> \/ o # q.savedOrder[1] }

\* The store after the outer catch clause of createOrder: it logs and
\* answers 500, and issues no store operation and no remote call.
CreateCatch(coll, q) == coll

CreateStockReturn(r, i, out) ==
    /\ rq[r].handler = "createOrder"
    /\ i \in DOMAIN rq[r].stocks /\ rq[r].stocks[i] = "pending"
    /\ LET q == [rq[r] EXCEPT !.answered = Answer(@, "stock", i, out)]
           q1 == [q EXCEPT !.stocks[i] = StockOutcome(out),
                           !.stockData[i] =
                              IF out = "ok"
                              THEN <<StockData(q.items[i].productId,
                                               q.recon[i].newQuantity)>>
                              ELSE @]
           all == PromiseAll(q1.stocks)
       IN  IF q.pc # "recon" \/ all = "pending"
           THEN rq' = [rq EXCEPT ![r] = q1] /\ UNCHANGED orders
           ELSE IF all = "rejected"
           THEN /\ rq' = [rq EXCEPT ![r] = Respond(q1, 500)]
                /\ orders' = CreateCatch(orders, q1)
           ELSE rq' = [rq EXCEPT ![r] = RespondCreated(q1)] /\ UNCHANGED orders
    /\ UNCHANGED <<nextId, created, deleted, natural>>

\* One resumption of the createOrder handler running in slot r.
\* `remote` are the outcomes the sibling services may give, `db` those of
\* the store, `cap` the number of documents that may be constructed.
CreateStepUpTo(r, remote, db, cap) ==
    \/ \E out \in remote : CreateClientReturn(r, out)
    \/ \E out \in remote : CreateStoreReturn(r, out)
    \/ \E i \in 1..MaxItems, out \in remote \ {"empty"} :
          CreateItemReturn(r, i, out)
    \/ \E out \in db : CreateCountReturn(r, out, cap)
    \/ \E out \in db : CreateSaveReturn(r, out)
    \/ \E i \in 1..MaxItems, out \in remote \ {"empty"} :
          CreateStockReturn(r, i, out)

CreateStep(r, remote, db) == CreateStepUpTo(r, remote, db, MaxIds)

\* One createOrder request, with every shape of body, on a fresh store.
NextPipeline ==
    \/ \E body \in CreateBodies : rq[1].pc = "idle" /\ CreateStart(1, Credential, body)
    \/ CreateStep(1, LookupOutcomes, Outcomes)

SpecPipeline == Init /\ [][NextPipeline]_vars

\* -------------------------------------------------------------- editOrder
\* mongoose.Types.ObjectId.isValid(id)
ObjectIdIsValid(id) == id # << >> /\ id[1] >= 1

\* Faulty variant: the query carries no filter and returns a stored document.
FindFirst(coll, id) == IF coll = {} THEN {} ELSE {CHOOSE o \in coll : TRUE}

\* The store failed while serving the request's findById.
FindFault(q) == [q EXCEPT !.findFault = TRUE]

\* Order.findById(id): the document, or null.
FindById(coll, id) == { o \in coll : o._id = id }

\* Faulty variant: the patch is not written.
ApplyPatchNone(doc, body) == doc

\* The document after $set of the body's schema paths (items, total,
\* paymentType, createdAt, order_number); clientId and storeId are not schema paths.
\* Update validators are off, so required paths are not re-checked.
ApplyPatch(doc, body) ==
    [ doc EXCEPT
        !.items = IF body.items.kind = "array"
                  THEN [i \in DOMAIN body.items.list |->
                          [ productId |-> body.items.list[i].productId,
                            serviceId |-> body.items.list[i].serviceId,
                            quantity |-> body.items.list[i].quantity,
                            name |-> "", price |-> << >> ]]
                  ELSE @,
        !.total = IF body.total # << >> THEN body.total[1] ELSE @,
        !.paymentType = IF body.paymentType # "" THEN body.paymentType ELSE @,
        !.createdAt = IF body.createdAt # << >> THEN body.createdAt[1] ELSE @,
        !.order_number = IF body.order_number # << >>
                         THEN body.order_number ELSE @ ]

\* updateStockPromises of editOrder right after the map.
EditTask(item) ==
    IF item.productId # "" \/ item.serviceId # "" THEN "pending" ELSE "rejected"

EditCall(item) ==
    IF item.productId # "" THEN "stock"
    ELSE IF item.serviceId # "" THEN "service" ELSE "none"

\* The call one sub-task of editOrder issues for an item: a stock PUT
\* carrying quantityUsed, a GET to the services catalog, or nothing.
EditReconCall(item) ==
    [ call |-> EditCall(item),
      newQuantity |-> IF item.productId # "" THEN QuantityUsed(item.quantity)
                      ELSE 0 ]

\* The Authorization header of the call editOrder issues for an item: the
\* stock PUT passes `headers: { Authorization: token }`, the service GET
\* passes no options.
EditAuthorization(item, header) ==
    IF item.productId # "" THEN header ELSE << >>

EditStart(r, header, id, body) ==
    /\ Settled(r)
    /\ LET q == [IdleReq EXCEPT !.handler = "editOrder", !.body = body,
                                !.id = id, !.header = header]
       IN  IF id = << >>
           THEN rq' = [rq EXCEPT ![r] = Respond(q, 400)]
           ELSE rq' = [rq EXCEPT ![r] = [q EXCEPT !.pc = "find", !.storeOps = {"findById"}]]
    /\ UNCHANGED <<orders, nextId, created, deleted, natural>>

EditFindReturn(r, out) ==
    /\ rq[r].handler = "editOrder" /\ rq[r].pc = "find"
    /\ LET q == rq[r]
       IN  IF out = "error"
           THEN rq' = [rq EXCEPT ![r] = Respond(FindFault(q), 500)]
           ELSE IF ~ObjectIdIsValid(q.id)
           THEN rq' = [rq EXCEPT ![r] = Respond(q, 500)]
           ELSE IF FindById(orders, q.id) = {}
           THEN rq' = [rq EXCEPT ![r] = Respond(q, 404)]
           ELSE rq' = [rq EXCEPT ![r] =
                         [q EXCEPT !.pc = "update",
                                   !.storeOps = @ \cup {"findByIdAndUpdate"}]]
    /\ UNCHANGED <<orders, nextId, created, deleted, natural>>

EditUpdateReturn(r, out) ==
    /\ rq[r].handler = "editOrder" /\ rq[r].pc = "update"
    /\ LET q == rq[r]
           found == FindById(orders, q.id)
           old == CHOOSE o \in found : TRUE
           new == ApplyPatch(old, q.body)
           failed == \/ out = "error"
                     \/ found # {} /\ DuplicateKey(orders, new)
           list == q.body.items.list
           stocks == [i \in DOMAIN list |-> EditTask(list[i])]
           q1 == [q EXCEPT !.savedOrder = IF found = {} THEN << >> ELSE <<new>>]
           calls == [i \in DOMAIN list |->
                       [call |-> EditCall(list[i]),
                        authorization |-> EditAuthorization(list[i], q.header)]]
           q2 == [q1 EXCEPT !.stocks = stocks,
                    !.recon = [i \in DOMAIN list |-> EditReconCall(list[i])],
                    !.sent = SendAll(@, calls),
                    !.remoteCalls = {EditCall(list[i]) : i \in DOMAIN list} \ {"none"}]
           all == PromiseAll(stocks)
       IN  /\ orders' = IF failed \/ found = {} THEN orders
                        ELSE (orders \ found) \cup {new}
           /\ IF failed
              THEN rq' = [rq EXCEPT ![r] = Respond(q, 500)]
              ELSE IF q.body.items.kind # "array"
              THEN rq' = [rq EXCEPT ![r] = Respond(q1, 500)]
              ELSE IF all = "rejected"
              THEN rq' = [rq EXCEPT ![r] = Respond(q2, 500)]
              ELSE IF all = "fulfilled"
              THEN rq' = [rq EXCEPT ![r] = Respond(q2, 200)]
              ELSE rq' = [rq EXCEPT ![r] = [q2 EXCEPT !.pc = "recon"]]
    /\ UNCHANGED <<nextId, created, deleted, natural>>

\* A stock PUT or a service GET of editOrder returned.  A service reply
\* without data.service makes the sub-task throw.
EditStockReturn(r, i, out) ==
    /\ rq[r].handler = "editOrder"
    /\ i \in DOMAIN rq[r].stocks /\ rq[r].stocks[i] = "pending"
    /\ LET q == [rq[r] EXCEPT
                   !.answered = Answer(@, rq[r].recon[i].call, i, out)]
           q1 == [q EXCEPT !.stocks[i] = IF out = "ok" THEN "fulfilled"
                                         ELSE "rejected"]
           all == PromiseAll(q1.stocks)
       IN  IF q.pc # "recon" \/ all = "pending"
           THEN rq' = [rq EXCEPT ![r] = q1]
           ELSE IF all = "rejected"
           THEN rq' = [rq EXCEPT ![r] = Respond(q1, 500)]
           ELSE rq' = [rq EXCEPT ![r] = Respond(q1, 200)]
    /\ UNCHANGED <<orders, nextId, created, deleted, natural>>

EditStep(r, remote, db) ==
    \/ \E out \in db : EditFindReturn(r, out)
    \/ \E out \in db : EditUpdateReturn(r, out)
    \/ \E i \in 1..MaxItems, out \in remote \ {"empty"} :
          EditStockReturn(r, i, out)

\* ------------------------------------------------------------ RemoveOrder
RemoveStart(r, header, id) ==
    /\ Settled(r)
    /\ LET q == [IdleReq EXCEPT !.handler = "RemoveOrder", !.id = id,
                                !.header = header]
       IN  IF ~ObjectIdIsValid(id)
           THEN rq' = [rq EXCEPT ![r] = Respond(q, 400)]
           ELSE rq' = [rq EXCEPT ![r] = [q EXCEPT !.pc = "find", !.storeOps = {"findById"}]]
    /\ UNCHANGED <<orders, nextId, created, deleted, natural>>

RemoveFindReturn(r, out) ==
    /\ rq[r].handler = "RemoveOrder" /\ rq[r].pc = "find"
    /\ LET q == rq[r]
           found == FindById(orders, q.id)
       IN  IF out = "error"
           THEN rq' = [rq EXCEPT ![r] = Respond(FindFault(q), 500)]
           ELSE IF found = {}
           THEN rq' = [rq EXCEPT ![r] = Respond(q, 404)]
           ELSE rq' = [rq EXCEPT ![r] =
                         [q EXCEPT !.savedOrder = <<CHOOSE o \in found : TRUE>>,
                                   !.pc = "delete",
                                   !.storeOps = @ \cup {"deleteOne"}]]
    /\ UNCHANGED <<orders, nextId, created, deleted, natural>>

RemoveDeleteReturn(r, out) ==
    /\ rq[r].handler = "RemoveOrder" /\ rq[r].pc = "delete"
    /\ LET q == rq[r]
       IN  IF out = "error"
           THEN /\ rq' = [rq EXCEPT ![r] = Respond(q, 500)]
                /\ UNCHANGED <<orders, deleted, natural>>
           ELSE /\ orders' = orders \ FindById(orders, q.id)
                /\ deleted' = IF FindById(orders, q.id) = {} THEN deleted
                               ELSE deleted \cup {q.id}
                /\ natural' = SelectSeq(natural, LAMBDA id : id # q.id)
                /\ rq' = [rq EXCEPT ![r] = Respond(q, 200)]
    /\ UNCHANGED <<nextId, created>>

RemoveStep(r, db) ==
    \/ \E out \in db : RemoveFindReturn(r, out)
    \/ \E out \in db : RemoveDeleteReturn(r, out)

\* -------------------------------------------------------------- ReadOrder
ReadStart(r, header, id) ==
    /\ Settled(r)
    /\ LET q == [IdleReq EXCEPT !.handler = "ReadOrder", !.id = id,
                                !.header = header]
       IN  IF ~ObjectIdIsValid(id)
           THEN rq' = [rq EXCEPT ![r] = Respond(q, 400)]
           ELSE rq' = [rq EXCEPT ![r] = [q EXCEPT !.pc = "find", !.storeOps = {"findById"}]]
    /\ UNCHANGED <<orders, nextId, created, deleted, natural>>

ReadFindReturn(r, out) ==
    /\ rq[r].handler = "ReadOrder" /\ rq[r].pc = "find"
    /\ LET q == rq[r]
           found == FindById(orders, q.id)
       IN  IF out = "error"
           THEN rq' = [rq EXCEPT ![r] = Respond(FindFault(q), 500)]
           ELSE IF found = {}
           THEN rq' = [rq EXCEPT ![r] = Respond(q, 404)]
           ELSE rq' = [rq EXCEPT ![r] =
                  Respond([q EXCEPT !.savedOrder = <<CHOOSE o \in found : TRUE>>],
                          200)]
    /\ UNCHANGED <<orders, nextId, created, deleted, natural>>

ReadStep(r, db) == \E out \in db : ReadFindReturn(r, out)

\* ------------------------------------------------------------- ReadOrders
DefaultPage == 1
DefaultLimit == 20
LimitCap == 100

\* The documents of the collection in the order Order.find() returns
\* them.  The query has no sort(), so this is the store's natural order:
\* the order in which the stored documents were inserted (an update keeps
\* a document's place).
InOrder(coll) ==
    LET ids == SelectSeq(natural, LAMBDA id : \E o \in coll : o._id = id)
    IN  [i \in DOMAIN ids |-> CHOOSE o \in coll : o._id = ids[i]]

\* The number of documents a query with the given limit returns at most:
\* the driver sends a negative limit as its absolute value.
EffectiveLimit(limit) == IF limit < 0 THEN -limit ELSE limit

\* Faulty variant: the skip is not applied.
FindPageNoSkip(coll, skip, limit) ==
    SubSeq(InOrder(coll), 1,
           IF EffectiveLimit(limit) < Cardinality(coll)
           THEN EffectiveLimit(limit) ELSE Cardinality(coll))

\* Order.find().skip(skip).limit(limit), for skip >= 0
FindPage(coll, skip, limit) ==
    SubSeq(InOrder(coll), skip + 1,
           IF skip + EffectiveLimit(limit) < Cardinality(coll)
           THEN skip + EffectiveLimit(limit)
           ELSE Cardinality(coll))

\* The store refuses a query with a negative skip.
SkipRefused(skip) == skip < 0

\* Faulty variant: no limit is refused.
LimitNeverRejected(limit) == FALSE

\* if (limit > 100) return res.status(400)
LimitRejected(limit) == limit > LimitCap

\* ReadOrders has no try block: a rejected store operation rejects the
\* handler's promise and no response is sent (status stays 0).
Unhandled(q) == [q EXCEPT !.pc = "done"]

ListStart(r, header, query) ==
    /\ Settled(r)
    /\ LET q == [IdleReq EXCEPT
                   !.handler = "ReadOrders", !.query = query,
                   !.header = header,
                   !.page = OrDefault(ParseInt(query.page), DefaultPage),
                   !.limit = OrDefault(ParseInt(query.limit), DefaultLimit)]
       IN  IF LimitRejected(q.limit)
           THEN rq' = [rq EXCEPT ![r] = Respond(q, 400)]
           ELSE rq' = [rq EXCEPT ![r] = [q EXCEPT !.pc = "find", !.storeOps = {"find"}]]
    /\ UNCHANGED <<orders, nextId, created, deleted, natural>>

ListFindReturn(r, out) ==
    /\ rq[r].handler = "ReadOrders" /\ rq[r].pc = "find"
    /\ LET q == rq[r]
           startIndex == (q.page - 1) * q.limit
           page == FindPage(orders, startIndex, q.limit)
       IN  IF out = "error" \/ SkipRefused(startIndex)
           THEN rq' = [rq EXCEPT ![r] = Unhandled(q)]
           ELSE rq' = [rq EXCEPT ![r] =
                  [q EXCEPT !.listing = <<[orders |-> page]>>,
                            !.pc = "count",
                            !.storeOps = @ \cup {"countDocuments"}]]
    /\ UNCHANGED <<orders, nextId, created, deleted, natural>>

ListCountReturn(r, out) ==
    /\ rq[r].handler = "ReadOrders" /\ rq[r].pc = "count"
    /\ LET q == rq[r]
           totalOrders == Cardinality(orders)
           pagination == [ currentPage |-> q.page,
                           totalPages |-> CeilDiv(totalOrders, q.limit),
                           totalOrders |-> totalOrders ]
       IN  IF out = "error"
           THEN rq' = [rq EXCEPT ![r] = Unhandled(q)]
           ELSE rq' = [rq EXCEPT ![r] =
                  Respond([q EXCEPT !.listing =
                             <<[orders |-> q.listing[1].orders,
                                pagination |-> pagination]>>], 200)]
    /\ UNCHANGED <<orders, nextId, created, deleted, natural>>

ListStep(r, db) ==
    \/ \E out \in db : ListFindReturn(r, out)
    \/ \E out \in db : ListCountReturn(r, out)

\* Query strings of a list request: absent, "0", "1", "2", "100", "101",
\* "?", "+101", " 101", "0x65", "+2" and "-1" for the limit; absent, "2",
\* "+2" or "-1" for the page.
Queries ==
    [ page : { << >>, <<2>>, <<Plus, 2>>, <<Minus, 1>> },
      limit : { << >>, <<0>>, <<1>>, <<2>>, <<1, 0, 0>>, <<1, 0, 1>>,
                <<NonDigit>>, <<Plus, 1, 0, 1>>, <<Space, 1, 0, 1>>,
                <<0, LetterX, 6, 5>>, <<Plus, 2>>, <<Minus, 1>> } ]

\* ------------------------------------------------- the service as a whole
\* Requests of the concurrent specification: one well-formed create body,
\* edits that patch the order number and/or the item list, deletes.
OneProduct == <<[productId |-> "P1", serviceId |-> "", quantity |-> <<2>>]>>

ValidBodies ==
    { [ _id |-> << >>, createdAt |-> << >>,
        items |-> [kind |-> "array", list |-> OneProduct], clientId |-> "C1",
        storeId |-> "T1", paymentType |-> "card", total |-> << >>,
        order_number |-> << >> ] }

\* The same bodies, or carrying the id of an order the service has handed
\* out before.
IdBodies == { [b EXCEPT !._id = id] :
                b \in ValidBodies, id \in { << >>, <<1>> } }

EditBodies ==
    { [NoBody EXCEPT !.items = it, !.order_number = n] :
        it \in { [kind |-> "missing", list |-> << >>],
                 [kind |-> "array", list |-> OneProduct] },
        n \in { << >> } \cup { NumToString(k) : k \in 1..MaxIds } }

IdValues == { << >>, <<0>> } \cup { <<n>> : n \in 1..MaxIds }

\* The service used by one client at a time (the single-writer scenario):
\* a request is issued only when the previous one has been answered.
Next ==
    \/ \E body \in IdBodies : CreateStart(1, Credential, body)
    \/ CreateStep(1, LookupOutcomes, Outcomes)
    \/ \E id \in IdValues, body \in EditBodies : EditStart(1, Credential, id, body)
    \/ EditStep(1, LookupOutcomes, Outcomes)
    \/ \E id \in IdValues : RemoveStart(1, Credential, id)
    \/ RemoveStep(1, Outcomes)
    \/ \E id \in IdValues : ReadStart(1, Credential, id)
    \/ ReadStep(1, Outcomes)
    \/ \E query \in Queries : ListStart(1, Credential, query)
    \/ ListStep(1, Outcomes)

Spec == Init /\ [][Next]_vars

\* Requests of several clients in flight at once: handlers interleave at
\* their suspension points.  The sibling services answer every call; the
\* store may fail.  Edits and deletes address well-formed ids, and every
\* edit patches the order number.
RaceEditBodies == { b \in EditBodies :
                      b.items.kind = "array" /\ b.order_number # << >> }

RaceIds == { <<n>> : n \in 1..MaxIds }

NextRace ==
    \E r \in Reqs :
        \/ \E body \in ValidBodies : CreateStart(r, Credential, body)
        \/ CreateStep(r, {"ok"}, Outcomes)
        \/ \E id \in RaceIds, body \in RaceEditBodies : EditStart(r, Credential, id, body)
        \/ EditStep(r, {"ok"}, Outcomes)
        \/ \E id \in RaceIds : RemoveStart(r, Credential, id)
        \/ RemoveStep(r, Outcomes)
        \/ \E id \in RaceIds : ReadStart(r, Credential, id)
        \/ ReadStep(r, Outcomes)

SpecRace == Init /\ [][NextRace]_vars

\* Creates and edits of one client, the edits patching the item list,
\* the total and/or createdAt.
OneService == <<[productId |-> "", serviceId |-> "S1", quantity |-> << >>]>>

TotalEditBodies ==
    { [NoBody EXCEPT !.items = it, !.total = t, !.createdAt = c] :
        it \in { [kind |-> "missing", list |-> << >>],
                 [kind |-> "array", list |-> OneProduct],
                 [kind |-> "array", list |-> OneService] },
        t \in { << >>, <<99>> },
        c \in { << >>, <<0>> } }

NextEdit ==
    \/ \E body \in ValidBodies : CreateStart(1, Credential, body)
    \/ CreateStep(1, LookupOutcomes, Outcomes)
    \/ \E id \in IdValues, body \in TotalEditBodies : EditStart(1, Credential, id, body)
    \/ EditStep(1, LookupOutcomes, Outcomes)

SpecEdit == Init /\ [][NextEdit]_vars

\* Edits that replace the item list of a stored order by products in
\* other quantities (given, zero or absent) or by a service.
QuantityItems ==
    { [productId |-> "P1", serviceId |-> "", quantity |-> <<2>>],
      [productId |-> "P1", serviceId |-> "", quantity |-> <<0>>],
      [productId |-> "P1", serviceId |-> "", quantity |-> << >>],
      [productId |-> "P2", serviceId |-> "", quantity |-> <<1>>],
      [productId |-> "",   serviceId |-> "S1", quantity |-> << >>] }

QuantityEditBodies ==
    { [NoBody EXCEPT !.items = [kind |-> "array", list |-> l]] :
        l \in [1..1 -> QuantityItems] }

NextQuantity ==
    \/ \E body \in ValidBodies : CreateStart(1, Credential, body)
    \/ CreateStep(1, {"ok"}, {"ok"})
    \/ \E id \in RaceIds, body \in QuantityEditBodies :
          EditStart(1, Credential, id, body)
    \/ EditStep(1, Outcomes, Outcomes)

SpecQuantity == Init /\ [][NextQuantity]_vars

\* A single writer creating and deleting orders; every remote call and
\* every store operation is served.
WriterIds == { <<n>> : n \in 1..MaxCreates }

NextWriter ==
    \/ \E body \in ValidBodies : CreateStart(1, Credential, body)
    \/ CreateStepUpTo(1, {"ok"}, {"ok"}, MaxCreates)
    \/ \E id \in WriterIds : RemoveStart(1, Credential, id)
    \/ RemoveStep(1, {"ok"})

SpecWriter == Init /\ [][NextWriter]_vars

\* A single writer creating orders (some under an id the service handed
\* out before), deleting and listing them; the remote services answer
\* every call, the store may fail a list query.
NextList ==
    \/ \E body \in IdBodies : CreateStart(1, Credential, body)
    \/ CreateStepUpTo(1, {"ok"}, {"ok"}, MaxCreates)
    \/ \E id \in WriterIds : RemoveStart(1, Credential, id)
    \/ RemoveStep(1, {"ok"})
    \/ \E query \in Queries : ListStart(1, Credential, query)
    \/ ListStep(1, Outcomes)

SpecList == Init /\ [][NextList]_vars

\* ----------------------------------------------------------------- router
\* authHeader && authHeader.split(" ")[1]
TokenOf(header) == IF Len(header) >= 2 THEN <<header[2]>> ELSE << >>

\* jwt.verify(token, secret) returns (TRUE) or throws (FALSE).
JwtVerify(token) == token.valid

\* Faulty variant: the token is not verified.
CheckTokenPresent(header) == IF TokenOf(header) = << >> THEN 401 ELSE 0

\* checkToken: the status it answers, or 0 when it calls next().
CheckToken(header) ==
    IF TokenOf(header) = << >> THEN 401
    ELSE IF ~JwtVerify(TokenOf(header)[1]) THEN 401
    ELSE 0

\* isAdmin, run after checkToken: 0 when it calls next().
IsAdmin(header) == IF TokenOf(header)[1].role = 3 THEN 0 ELSE 403

Routes == {"CreateOrder", "EditOrder", "RemoveOrder", "ReadOrder", "ReadOrders"}

\* A middleware answers the request; no handler runs.
Refuse(r, route, header, code) ==
    /\ Settled(r)
    /\ rq' = [rq EXCEPT ![r] =
                Respond([IdleReq EXCEPT !.route = route, !.header = header],
                        code)]
    /\ UNCHANGED <<orders, nextId, created, deleted, natural>>

\* The chain of the RemoveOrder route (checkToken, isAdmin, RemoveOrder)
\* run on a request whose params carry `id`.
RemoveRoute(r, header, id) ==
    IF CheckToken(header) # 0
    THEN Refuse(r, "RemoveOrder", header, CheckToken(header))
    ELSE IF IsAdmin(header) # 0
    THEN Refuse(r, "RemoveOrder", header, IsAdmin(header))
    ELSE RemoveStart(r, header, id)

\* A request through the router.  No route path has an :id parameter, so
\* req.params.id is undefined in the handlers.
Request(r, route, header, body, query) ==
    IF route = "RemoveOrder" THEN RemoveRoute(r, header, << >>)
    ELSE IF CheckToken(header) # 0
    THEN Refuse(r, route, header, CheckToken(header))
    ELSE IF route = "CreateOrder" THEN CreateStart(r, header, body)
    ELSE IF route = "EditOrder" THEN EditStart(r, header, << >>, body)
    ELSE IF route = "ReadOrder" THEN ReadStart(r, header, << >>)
    ELSE ListStart(r, header, query)

RouterQueries == { q \in Queries : q.page = << >> /\ q.limit \in {<< >>, <<1, 0, 1>>} }

\* One client after another calling the service through its routes.
NextAuth ==
    \/ \E route \in Routes, header \in Headers, body \in ValidBodies,
          query \in RouterQueries : Request(1, route, header, body, query)
    \/ CreateStep(1, LookupOutcomes, Outcomes)
    \/ ListStep(1, Outcomes)

SpecAuth == Init /\ [][NextAuth]_vars

\* Orders created by one client and deletes asked by callers of every
\* kind, the route's chain running on requests that carry an id.
NextAdmin ==
    \/ \E body \in ValidBodies : CreateStart(1, Credential, body)
    \/ CreateStep(1, {"ok"}, {"ok"})
    \/ \E header \in Headers, id \in IdValues : RemoveRoute(1, header, id)
    \/ RemoveStep(1, Outcomes)

SpecAdmin == Init /\ [][NextAdmin]_vars

\* ------------------------------------------- createOrder, fractional prices
\* The callback of an item whose product is priced in fractions, resumed
\* with the product's reply: `total += price * quantity` on doubles.  The
\* running total of such a request is kept in totalDouble.
FractionItems ==
    { [productId |-> p, serviceId |-> "", quantity |-> <<n>>] :
        p \in {"D1", "D2", "D3"}, n \in {1, 2} }

FractionBodies ==
    { [b EXCEPT !.items = [kind |-> "array", list |-> l]] :
        b \in ValidBodies,
        l \in UNION { [1..n -> FractionItems] : n \in 1..SumItems } }

FractionSubtotal(t) == DoubleMul(t.price[1], IntToDouble(t.quantity[1]))

CreateFractionReturn(r, i) ==
    /\ rq[r].handler = "createOrder" /\ rq[r].pc = "items"
    /\ i \in DOMAIN rq[r].items /\ rq[r].items[i].st = "pending"
    /\ LET q == [rq[r] EXCEPT !.answered = Answer(@, "product", i, "ok")]
           entry == FractionCatalog(q.items[i].productId)
           t == [q.items[i] EXCEPT !.resolved = TRUE, !.name = entry.name,
                                   !.price = <<entry.price>>,
                                   !.st = "fulfilled", !.priced = TRUE]
           q1 == [q EXCEPT !.items[i] = t,
                           !.totalDouble = DoubleAdd(@, FractionSubtotal(t))]
       IN  IF PromiseAll(States(q1.items)) = "pending"
           THEN rq' = [rq EXCEPT ![r] = q1]
           ELSE rq' = [rq EXCEPT ![r] =
                         [q1 EXCEPT !.pc = "count",
                                    !.storeOps = @ \cup {"count"}]]
    /\ UNCHANGED <<orders, nextId, created, deleted, natural>>

\* One client creating orders of fraction-priced products; every lookup
\* succeeds, the item lookups return in any order.
NextFraction ==
    \/ \E body \in FractionBodies : CreateStart(1, Credential, body)
    \/ CreateClientReturn(1, "ok")
    \/ CreateStoreReturn(1, "ok")
    \/ \E i \in 1..SumItems : CreateFractionReturn(1, i)

SpecFraction == Init /\ [][NextFraction]_vars

\* ------------------------------------------------------------------ claims
Creates == { r \in Reqs : rq[r].handler = "createOrder" }

\* Sum of the subtotals of persisted items: price x quantity for an item
\* with a productId, price for a service item.
RECURSIVE SumSubtotals(_)
SumSubtotals(items) ==
    IF items = << >> THEN 0
    ELSE SumSubtotals(SubSeq(items, 1, Len(items) - 1))
         + ( IF items[Len(items)].productId # ""
             THEN items[Len(items)].price[1] * items[Len(items)].quantity[1]
             ELSE items[Len(items)].price[1] )

\* C1: the order a successful createOrder persists has as total the sum of
\* resolved price x quantity over its product items plus the resolved
\* price of its service items, whatever total the body carried.
C1_TotalIsSumOfSubtotals ==
    \A r \in Creates :
        rq[r].savedOrder # << >> =>
            /\ rq[r].savedOrder[1] \in orders
            /\ rq[r].savedOrder[1].total = SumSubtotals(rq[r].savedOrder[1].items)

\* A product and a service were ordered together, the caller sent a total
\* of its own, and the order was saved.
C1_Witness ==
    \E r \in Creates :
        /\ rq[r].savedOrder # << >>
        /\ rq[r].body.total = <<99>>
        /\ \E i, j \in DOMAIN rq[r].items :
              rq[r].items[i].call = "product" /\ rq[r].items[j].call = "service"
        /\ rq[r].savedOrder[1].total = 14

\* C2: a createOrder whose items are missing, not a list or empty fails
\* and issues no store operation and no remote call.
C2_BadItemsTouchNothing ==
    \A r \in Creates :
        ~(rq[r].body.items.kind = "array" /\ rq[r].body.items.list # << >>) =>
            /\ rq[r].pc = "done" /\ rq[r].status >= 400
            /\ rq[r].remoteCalls = {} /\ rq[r].storeOps = {}
            /\ orders = {}

\* An otherwise complete request with an empty item list was refused.
C2_Witness ==
    \E r \in Creates :
        /\ rq[r].body.items = [kind |-> "array", list |-> << >>]
        /\ rq[r].body.clientId # "" /\ rq[r].body.storeId # ""
        /\ rq[r].body.paymentType # ""
        /\ rq[r].pc = "done"

\* A product item whose lookup returned and whose quantity exceeds the
\* stock the lookup reported.
ExceedsStock(t) ==
    /\ t.call = "product" /\ t.resolved /\ IsNumber(t.quantity)
    /\ t.quantity[1] > ProductCatalog(t.productId).stock

\* C3: a createOrder with a product item whose quantity exceeds the
\* resolved stock fails, persists nothing and issues no stock decrement.
C3_InsufficientStockRejected ==
    \A r \in Creates :
        (\E i \in DOMAIN rq[r].items : ExceedsStock(rq[r].items[i])) =>
            /\ rq[r].savedOrder = << >>
            /\ "stock" \notin rq[r].remoteCalls
            /\ rq[r].pc = "done" => rq[r].status >= 400

\* C4: the order is written only once the client, the store and every item
\* are resolved and priced; while anything is unresolved, unpriced or has
\* failed, the request has persisted nothing.
C4_NoPartialOrder ==
    \A r \in Creates :
        ( \/ rq[r].client = << >> \/ rq[r].store = << >>
          \/ rq[r].items = << >>
          \/ \E i \in DOMAIN rq[r].items : ~rq[r].items[i].priced ) =>
            rq[r].savedOrder = << >> /\ orders = {}

\* One item was priced, another failed, and the request was answered.
C4_Witness ==
    \E r \in Creates :
        /\ rq[r].pc = "done" /\ rq[r].status = 500
        /\ \E i, j \in DOMAIN rq[r].items :
              rq[r].items[i].priced /\ rq[r].items[j].st = "rejected"
        /\ orders = {}

\* C5: with one writer, the order number a create assigns is the number of
\* orders in the store just before the save, plus one.
C5_OrderNumberIsCountPlusOne ==
    [][ \A r \in Reqs :
          ( /\ rq[r].handler = "createOrder" /\ rq[r].pc = "save"
            /\ rq'[r].savedOrder # << >> ) =>
              /\ rq'[r].savedOrder[1] \in orders' \ orders
              /\ rq'[r].savedOrder[1].order_number
                    = NumToString(Cardinality(orders) + 1) ]_vars

\* A second order was created after the first and got number 2.
C5_Witness ==
    \E r \in Creates :
        /\ rq[r].savedOrder # << >>
        /\ rq[r].savedOrder[1].order_number = <<2>>
        /\ Cardinality(orders) = 2

\* C6: every created order gets an order number strictly greater than
\* that of every order created before it.
C6_OrderNumbersIncrease ==
    \A i, j \in DOMAIN created :
        i < j => StringToNum(created[i]) < StringToNum(created[j])

\* C7: no two persisted orders have the same order number.
C7_OrderNumbersUnique ==
    \A o1, o2 \in orders : o1 # o2 => o1.order_number # o2.order_number

\* An order is stored while a create is about to save a document with the
\* same order number.
C7_Witness ==
    \E r \in Creates :
        rq[r].pc = "save" /\ DuplicateKey(orders, rq[r].newOrder[1])

\* C8: two creates that read the same order count before either saves
\* hold the same order number.
C8_SameCountSameNumber ==
    \A r1, r2 \in Creates :
        ( /\ r1 # r2
          /\ rq[r1].pc = "save" /\ rq[r2].pc = "save"
          /\ rq[r1].orderCount = rq[r2].orderCount ) =>
            rq[r1].newOrder[1].order_number = rq[r2].newOrder[1].order_number

\* Two creates have both read the count, neither has saved, and they hold
\* the same order number.
C8_Witness ==
    \E r1, r2 \in Creates :
        /\ r1 # r2
        /\ rq[r1].pc = "save" /\ rq[r2].pc = "save"
        /\ rq[r1].newOrder[1].order_number = rq[r2].newOrder[1].order_number

\* C9 as stated: every item lookup completes before any item is priced,
\* all pricing completes before the save is issued, and the order is
\* saved before any stock call is issued.
C9_StrictPipeline ==
    \A r \in Creates :
        /\ (\E i \in DOMAIN rq[r].items : rq[r].items[i].priced) =>
              \A j \in DOMAIN rq[r].items : rq[r].items[j].st # "pending"
        /\ "save" \in rq[r].storeOps =>
              \A i \in DOMAIN rq[r].items : rq[r].items[i].priced
        /\ "stock" \in rq[r].remoteCalls => rq[r].savedOrder # << >>

\* C9 amended: each item is priced after its own lookup has completed
\* (lookups of other items may still be in flight), all pricing completes
\* before the save is issued, and the order is saved before any stock
\* call is issued.
C9_PipelinePerItem ==
    \A r \in Creates :
        /\ \A i \in DOMAIN rq[r].items :
              rq[r].items[i].priced => rq[r].items[i].resolved
        /\ "save" \in rq[r].storeOps =>
              /\ rq[r].items # << >>
              /\ \A i \in DOMAIN rq[r].items : rq[r].items[i].priced
        /\ (rq[r].stocks # << >> \/ "stock" \in rq[r].remoteCalls) =>
              rq[r].savedOrder # << >> /\ rq[r].savedOrder[1] \in orders

\* A stock call is in flight for an order of two items.
C9_Witness ==
    \E r \in Creates :
        /\ Len(rq[r].items) = 2
        /\ \E i \in DOMAIN rq[r].stocks : rq[r].stocks[i] = "pending"

\* The save was issued and rejected.
SaveFailed(q) ==
    /\ q.handler = "createOrder" /\ q.pc = "done"
    /\ "save" \in q.storeOps /\ q.savedOrder = << >>

\* C10: when the save fails the request fails and no stock call is issued.
C10_NoReconcileAfterFailedSave ==
    \A r \in Reqs :
        SaveFailed(rq[r]) =>
            /\ rq[r].status = 500
            /\ rq[r].stocks = << >>
            /\ "stock" \notin rq[r].remoteCalls

\* The save of an order with a product item was rejected.
C10_Witness ==
    \E r \in Reqs :
        /\ SaveFailed(rq[r])
        /\ \E i \in DOMAIN rq[r].items : rq[r].items[i].call = "product"

\* C11 as stated: once the order is saved, reconciliation issues one call
\* per item: a stock call carrying the item's quantity for a product item,
\* a call to the services catalog for a service item.
C11_OneCallPerItem ==
    \A r \in Creates :
        rq[r].savedOrder # << >> =>
            /\ Len(rq[r].recon) = Len(rq[r].items)
            /\ \A i \in DOMAIN rq[r].items :
                  IF rq[r].items[i].productId # ""
                  THEN rq[r].recon[i] =
                         [call |-> "stock",
                          newQuantity |-> rq[r].items[i].quantity[1]]
                  ELSE rq[r].recon[i].call = "service"

\* C12: a create whose reconciliation had a failed call is answered with
\* a failure, and a success answer means every reconciliation call of the
\* order succeeded.
C12_ReconcileFailureFailsCreate ==
    \A r \in Creates :
        rq[r].pc = "done" =>
            /\ (\E i \in DOMAIN rq[r].stocks : rq[r].stocks[i] = "rejected")
                  => rq[r].status = 500
            /\ rq[r].status = 200 =>
                  /\ rq[r].savedOrder # << >>
                  /\ Len(rq[r].stocks) = Len(rq[r].items)
                  /\ \A i \in DOMAIN rq[r].stocks :
                        rq[r].stocks[i] = "fulfilled"

\* A stock call failed while another was still in flight, and the request
\* was answered.
C12_Witness ==
    \E r \in Creates :
        /\ rq[r].pc = "done" /\ rq[r].status = 500
        /\ \E i, j \in DOMAIN rq[r].stocks :
              rq[r].stocks[i] = "rejected" /\ rq[r].stocks[j] = "pending"

\* C13: after a failed reconciliation call the order the request saved is
\* still in the store, and the calls issued are the one stock call per
\* product item and nothing that would undo them.
C13_NoCompensation ==
    \A r \in Creates :
        (\E i \in DOMAIN rq[r].stocks : rq[r].stocks[i] = "rejected") =>
            /\ rq[r].savedOrder # << >> /\ rq[r].savedOrder[1] \in orders
            /\ rq[r].storeOps = {"count", "save"}
            /\ rq[r].remoteCalls \subseteq
                  {"client", "store", "product", "service", "stock"}
            /\ rq[r].recon = [i \in DOMAIN rq[r].items |->
                                StockCall(rq[r].items[i])]

\* The stock call of one item succeeded, that of another failed, and the
\* request was answered with the order still stored.
C13_Witness ==
    \E r \in Creates :
        /\ rq[r].pc = "done" /\ rq[r].status = 500
        /\ \E i, j \in DOMAIN rq[r].stocks :
              /\ rq[r].stocks[i] = "rejected"
              /\ rq[r].stocks[j] = "fulfilled" /\ rq[r].recon[j].call = "stock"
        /\ rq[r].savedOrder[1] \in orders

\* The validation rules of createOrder: items present and non-empty,
\* clientId and storeId present, every item of a valid kind, every product
\* item with a positive numeric quantity.
FailsValidation(body) ==
    \/ ~ItemsValid(body.items)
    \/ body.clientId = "" \/ body.storeId = ""
    \/ \E i \in DOMAIN body.items.list :
          LET item == body.items.list[i]
          IN  \/ item.productId = "" /\ item.serviceId = ""
              \/ item.productId # "" /\ ~ValidQuantity(item.quantity)

\* C15 as stated: a createOrder that fails validation issues no remote
\* call.
C15_ValidationBeforeRemote ==
    \A r \in Creates :
        FailsValidation(rq[r].body) =>
            /\ rq[r].remoteCalls = {}
            /\ rq[r].pc = "done" /\ rq[r].status >= 400

\* C14: an editOrder for an id that is not in the store leaves the store
\* unchanged, issues no reconciliation call, and is answered 404 (a
\* well-formed id, the store answering the lookup).
C14_EditMissingNotFound ==
    [][ \A r \in Reqs :
          ( /\ rq[r].handler = "editOrder" /\ rq[r].pc = "find"
            /\ ~\E o \in orders : o._id = rq[r].id
            /\ rq'[r] # rq[r] ) =>
              /\ orders' = orders
              /\ rq'[r].pc = "done"
              /\ rq'[r].recon = << >> /\ rq'[r].remoteCalls = {}
              /\ (ObjectIdIsValid(rq[r].id) /\ ~rq'[r].findFault)
                    => rq'[r].status = 404 ]_vars

\* An edit carrying an item list addressed a well-formed id that is not
\* stored, while another order is, and was answered 404.
C14_Witness ==
    \E r \in Reqs :
        /\ rq[r].handler = "editOrder" /\ rq[r].pc = "done"
        /\ rq[r].status = 404 /\ rq[r].body.items.kind = "array"
        /\ orders # {} /\ ~\E o \in orders : o._id = rq[r].id

\* Every stored item carries what a subtotal needs.
Priced(items) ==
    \A i \in DOMAIN items :
        /\ items[i].price # << >>
        /\ items[i].productId # "" => items[i].quantity # << >>

\* C16 as stated: the total of every stored order is the sum of the
\* subtotals of its stored items.
C16_StoredTotalIsSum ==
    \A o \in orders : Priced(o.items) /\ o.total = SumSubtotals(o.items)

\* C17 as stated: a read, edit or delete whose id is not a well-formed
\* ObjectId is answered 400 and issues no store operation.
C17_MalformedIdRejected ==
    \A r \in Reqs :
        ( /\ rq[r].handler \in {"ReadOrder", "editOrder", "RemoveOrder"}
          /\ ~ObjectIdIsValid(rq[r].id) ) =>
            /\ rq[r].pc = "done" /\ rq[r].status = 400
            /\ rq[r].storeOps = {}

\* C18 as stated: an id RemoveOrder has deleted is never stored again, and
\* a read or an edit of it is answered 404 (the store answering the
\* lookup).
C18_DeletionTerminal ==
    \A id \in deleted :
        /\ ~\E o \in orders : o._id = id
        /\ \A r \in Reqs :
              ( /\ rq[r].handler \in {"ReadOrder", "editOrder"}
                /\ rq[r].id = id /\ rq[r].pc = "done"
                /\ ~rq[r].findFault ) => rq[r].status = 404

\* The fields of an order the round trip compares.
SameOrder(a, b) ==
    /\ a.items = b.items /\ a.total = b.total
    /\ a.client = b.client /\ a.store = b.store
    /\ a.paymentType = b.paymentType /\ a.order_number = b.order_number

\* C19: a ReadOrder of the id of an order a createOrder saved, the order
\* not having been edited or deleted since, is answered with an order
\* equal to the created one (the store answering the lookup).
C19_ReadReturnsCreated ==
    [][ \A r1, r2 \in Reqs :
          ( /\ rq[r1].handler = "createOrder" /\ rq[r1].savedOrder # << >>
            /\ rq[r1].savedOrder[1] \in orders
            /\ rq[r2].handler = "ReadOrder" /\ rq[r2].pc = "find"
            /\ rq[r2].id = rq[r1].savedOrder[1]._id
            /\ rq'[r2] # rq[r2] ) =>
              \/ rq'[r2].findFault
              \/ /\ rq'[r2].status = 200
                 /\ SameOrder(rq'[r2].savedOrder[1], rq[r1].savedOrder[1]) ]_vars

\* Two orders are stored and a read of the order one create saved was
\* answered with it.
C19_Witness ==
    \E r1, r2 \in Reqs :
        /\ rq[r1].handler = "createOrder" /\ rq[r1].savedOrder # << >>
        /\ rq[r2].handler = "ReadOrder" /\ rq[r2].status = 200
        /\ rq[r2].savedOrder = rq[r1].savedOrder
        /\ Cardinality(orders) = 2

\* C20: a list request whose limit parses to more than 100 is answered
\* 400, queries nothing and returns no page.
C20_LimitOverCapRejected ==
    \A r \in Reqs :
        ( /\ rq[r].handler = "ReadOrders"
          /\ ParseInt(rq[r].query.limit) # << >>
          /\ ParseInt(rq[r].query.limit)[1] > LimitCap ) =>
            /\ rq[r].pc = "done" /\ rq[r].status = 400
            /\ rq[r].storeOps = {} /\ rq[r].listing = << >>

\* A list request with limit "101" was answered while an order is stored.
C20_Witness ==
    \E r \in Reqs :
        /\ rq[r].handler = "ReadOrders" /\ rq[r].query.limit = <<1, 0, 1>>
        /\ rq[r].status = 400 /\ orders # {}

\* The number of orders on page p of size l out of n orders.
PageLength(p, l, n) ==
    IF n <= (p - 1) * l THEN 0
    ELSE IF n >= p * l THEN l ELSE n - (p - 1) * l

\* C21: an answered list request with page p >= 1 and limit l >= 1
\* returns the orders at positions (p-1)*l+1 .. p*l of the collection in
\* the order the store keeps it (the order of insertion), and totalPages
\* is the ceiling of totalOrders / l.
C21_PageOfOrderedCollection ==
    \A r \in Reqs :
        ( /\ rq[r].handler = "ReadOrders" /\ rq[r].status = 200
          /\ rq[r].page >= 1 /\ rq[r].limit >= 1 ) =>
            LET p == rq[r].page
                l == rq[r].limit
                n == Cardinality(orders)
                got == rq[r].listing[1]
            IN  /\ l <= LimitCap
                /\ Len(got.orders) = PageLength(p, l, n)
                /\ \A k \in DOMAIN got.orders :
                      got.orders[k] = InOrder(orders)[(p - 1) * l + k]
                /\ got.pagination.totalOrders = n
                /\ got.pagination.totalPages * l >= n
                /\ (got.pagination.totalPages - 1) * l < n
                /\ got.pagination.currentPage = p

\* Page 2 of size 1 was returned out of two stored orders, and it holds
\* the order with the lower id, which was inserted last.
C21_Witness ==
    \E r \in Reqs :
        /\ rq[r].handler = "ReadOrders" /\ rq[r].status = 200
        /\ rq[r].page = 2 /\ rq[r].limit = 1
        /\ Len(rq[r].listing[1].orders) = 1 /\ Cardinality(orders) = 2
        /\ rq[r].listing[1].orders[1]._id = <<1>>
        /\ \E o \in orders : o._id = <<2>>

\* C22 as stated: every remote call a request issues carries the
\* Authorization header of the request.
C22_CallsCarryCredential ==
    \A r \in Reqs :
        \A c \in rq[r].sent :
            rq[r].header # << >> /\ c.authorization = rq[r].header

\* C26 as stated: no step changes the createdAt of a stored order.
C26_CreatedAtImmutable ==
    [][ \A o \in orders : \A n \in orders' :
          n._id = o._id => n.createdAt = o.createdAt ]_vars

\* An item of neither kind, or of both.
InvalidKind(item) ==
    \/ item.productId = "" /\ item.serviceId = ""
    \/ item.productId # "" /\ item.serviceId # ""

\* C23 as stated: a createOrder with an item that carries neither
\* productId nor serviceId, or both, fails and persists nothing.
C23_InvalidKindRejected ==
    \A r \in Creates :
        (\E i \in DOMAIN rq[r].body.items.list :
            InvalidKind(rq[r].body.items.list[i])) =>
            /\ rq[r].savedOrder = << >> /\ orders = {}
            /\ rq[r].pc = "done" => rq[r].status >= 400

\* C24 as stated: a createOrder with an item whose resolved price is
\* negative fails and persists nothing.
C24_NegativePriceRejected ==
    \A r \in Creates :
        (\E i \in DOMAIN rq[r].items :
            /\ rq[r].items[i].resolved /\ rq[r].items[i].price # << >>
            /\ rq[r].items[i].price[1] < 0) =>
            /\ rq[r].savedOrder = << >> /\ orders = {}
            /\ rq[r].pc = "done" => rq[r].status >= 400

\* The lookup of the item was answered with a record that has no price.
LacksPrice(t) ==
    /\ t.resolved
    /\ ( IF t.call = "product" THEN ProductCatalog(t.productId)
         ELSE ServiceCatalog(t.serviceId) ).price = << >>

\* C25: an item whose lookup is answered without a price makes its
\* sub-task fail: the item is never priced, nothing is persisted, and the
\* request is answered 500.
C25_MissingPriceFails ==
    \A r \in Creates :
        \A i \in DOMAIN rq[r].items :
            LacksPrice(rq[r].items[i]) =>
                /\ rq[r].items[i].st = "rejected" /\ ~rq[r].items[i].priced
                /\ rq[r].savedOrder = << >> /\ orders = {}
                /\ rq[r].pc = "done" /\ rq[r].status = 500

\* One item was priced, the lookup of another was answered without a
\* price, and the request was answered 500 with a total that counts the
\* priced item alone.
C25_Witness ==
    \E r \in Creates :
        /\ rq[r].status = 500
        /\ \E i, j \in DOMAIN rq[r].items :
              /\ LacksPrice(rq[r].items[i])
              /\ rq[r].items[j].priced
              /\ rq[r].total = ItemSubtotal(rq[r].items[j])

\* C29 as stated: a createOrder whose client or store lookup is answered
\* without a record is answered 404.
C29_MissingReferenceIs404 ==
    \A r \in Creates :
        ( /\ rq[r].pc = "done"
          /\ \E e \in rq[r].answered : e.outcome = "empty" ) =>
            rq[r].status = 404

\* Every product item of a saved order has its stock call issued.
AllStockCallsIssued(q) ==
    \A i \in DOMAIN q.items :
        q.items[i].productId # "" =>
            \E e \in q.sent : e.call = "stock" /\ e.item = i

\* C30 as stated: the stock calls of an order are all issued before any
\* is awaited, and the response is sent only once none is in flight.
C30_ResponseAfterAllCalls ==
    \A r \in Creates :
        /\ rq[r].savedOrder # << >> => AllStockCallsIssued(rq[r])
        /\ rq[r].pc = "done" =>
              \A i \in DOMAIN rq[r].stocks : rq[r].stocks[i] # "pending"

\* C30 amended: the stock calls of an order are all issued before any is
\* awaited; a success response is sent only once every one of them has
\* succeeded; a failure response after the save is sent when one of them
\* has failed, others possibly still in flight.
C30_JoinedFanOut ==
    \A r \in Creates :
        /\ rq[r].savedOrder # << >> => AllStockCallsIssued(rq[r])
        /\ rq[r].status = 200 =>
              /\ \A i \in DOMAIN rq[r].stocks : rq[r].stocks[i] = "fulfilled"
              /\ \A e \in rq[r].sent :
                    \E a \in rq[r].answered :
                        a.call = e.call /\ a.item = e.item
        /\ (rq[r].pc = "done" /\ rq[r].savedOrder # << >>
              /\ rq[r].status # 200) =>
              \E i \in DOMAIN rq[r].stocks : rq[r].stocks[i] = "rejected"

\* An order of two products was answered 200 after both stock calls were.
C30_Witness ==
    \E r \in Creates :
        /\ rq[r].status = 200
        /\ Cardinality({ a \in rq[r].answered :
                           a.call = "stock" /\ a.outcome = "ok" }) = 2

\* C27: no call is attempted twice: every call a request issued, and
\* every answer it got, is a first attempt, and every answer is that of a
\* call it issued.
C27_NoRetry ==
    \A r \in Reqs :
        /\ \A e \in rq[r].sent : e.attempt = 1
        /\ \A a \in rq[r].answered :
              /\ a.attempt = 1
              /\ \E e \in rq[r].sent : e.call = a.call /\ e.item = a.item

\* The stock call of a create failed and the request was answered.
C27_Witness ==
    \E r \in Creates :
        /\ rq[r].pc = "done" /\ rq[r].status = 500
        /\ \E a \in rq[r].answered : a.call = "stock" /\ a.outcome = "error"

\* The header carries no token, or one that does not verify.
NoValidToken(header) ==
    IF Len(header) < 2 THEN TRUE ELSE ~header[2].valid

\* C28: a request without a token, or with one that does not verify, is
\* answered 401 by the middleware: no handler runs, no store operation
\* and no remote call is issued.
C28_Unauthenticated401 ==
    \A r \in Reqs :
        (rq[r].pc # "idle" /\ NoValidToken(rq[r].header)) =>
            /\ rq[r].pc = "done" /\ rq[r].status = 401
            /\ rq[r].handler = "none"
            /\ rq[r].storeOps = {} /\ rq[r].sent = {}
            /\ rq[r].remoteCalls = {}

\* A create request with a token that does not verify was answered 401
\* while an order is stored.
C28_Witness ==
    \E r \in Reqs :
        /\ rq[r].route = "CreateOrder" /\ rq[r].status = 401
        /\ rq[r].header = <<"Bearer", ForgedToken>>
        /\ orders # {}

\* The total when the item callbacks run in request order.
RECURSIVE InOrderTotal(_)
InOrderTotal(items) ==
    IF items = << >> THEN {}
    ELSE DoubleAdd(InOrderTotal(SubSeq(items, 1, Len(items) - 1)),
                   FractionSubtotal(items[Len(items)]))

\* C31: once every item lookup of a createOrder has returned, the items
\* are those of the request in request order, each with the name and the
\* price resolved for it, and the total is the one obtained when the
\* lookups return in request order, whatever order they returned in.
C31_TotalIndependentOfCompletion ==
    \A r \in Creates :
        rq[r].pc = "count" =>
            /\ Len(rq[r].items) = Len(rq[r].body.items.list)
            /\ \A i \in DOMAIN rq[r].items :
                  /\ rq[r].items[i].productId = rq[r].body.items.list[i].productId
                  /\ rq[r].items[i].quantity = rq[r].body.items.list[i].quantity
                  /\ rq[r].items[i].name =
                        FractionCatalog(rq[r].items[i].productId).name
                  /\ rq[r].items[i].price =
                        <<FractionCatalog(rq[r].items[i].productId).price>>
            /\ rq[r].totalDouble = InOrderTotal(rq[r].items)

Edits == { r \in Reqs : rq[r].handler = "editOrder" }

\* The item-list map of an edit has run: the patch was written and the
\* body carries an item list.
EditMapped(q) == q.savedOrder # << >> /\ q.body.items.kind = "array"

\* C32: an editOrder that wrote its patch has issued, for each product
\* item of the request, one stock call carrying the item's quantity (1
\* when absent or zero), and no call other than these and the lookups of
\* the request's service items: nothing is computed from, or issued for,
\* the items the order held before.
C32_EditDecrementsRequestItems ==
    \A r \in Edits :
        EditMapped(rq[r]) =>
            LET list == rq[r].body.items.list
            IN  /\ DOMAIN rq[r].recon = DOMAIN list
                /\ \A i \in DOMAIN list :
                      list[i].productId # "" =>
                        /\ \E e \in rq[r].sent : e.call = "stock" /\ e.item = i
                        /\ rq[r].recon[i].call = "stock"
                        /\ rq[r].recon[i].newQuantity =
                              ( IF list[i].quantity = << >> THEN 1
                                ELSE IF list[i].quantity[1] = 0 THEN 1
                                ELSE list[i].quantity[1] )
                /\ \A e \in rq[r].sent :
                      /\ e.item \in DOMAIN list
                      /\ e.call = ( IF list[e.item].productId # "" THEN "stock"
                                    ELSE "service" )

\* An order created with two units of P1 was edited to an item list
\* holding P1 without a quantity; the edit was answered 200.
C32_Witness ==
    \E r \in Edits :
        /\ rq[r].status = 200
        /\ rq[r].body.items.list =
              <<[productId |-> "P1", serviceId |-> "", quantity |-> << >>]>>
        /\ rq[r].recon[1].newQuantity = 1
        /\ \E a \in rq[r].answered : a.call = "stock" /\ a.outcome = "ok"

\* C33: an editOrder issues remote calls only once its patch is written;
\* a written patch stays in the store whatever follows; and the request
\* is answered 500 when the body has no item list or a reconciliation
\* call failed.
C33_PatchBeforeCallsNotReverted ==
    \A r \in Edits :
        /\ rq[r].sent # {} => rq[r].savedOrder # << >>
        /\ (rq[r].savedOrder # << >> /\ rq[r].body.total # << >>) =>
              \E o \in orders :
                  o._id = rq[r].id /\ o.total = rq[r].body.total[1]
        /\ ( /\ rq[r].savedOrder # << >> /\ rq[r].pc = "done"
             /\ \/ rq[r].body.items.kind # "array"
                \/ \E a \in rq[r].answered : a.outcome = "error" ) =>
              rq[r].status = 500

\* An edit patching the total wrote its patch, its stock call failed, it
\* was answered 500 and the stored order carries the patched total.
C33_Witness ==
    \E r \in Edits :
        /\ rq[r].status = 500 /\ rq[r].body.total = <<99>>
        /\ \E a \in rq[r].answered : a.call = "stock" /\ a.outcome = "error"
        /\ \E o \in orders : o._id = rq[r].id /\ o.total = 99

\* C34: with a single writer, valid input and every remote call served, a
\* createOrder that has ended has persisted its order and answered 200.
C34_ValidCreatePersists ==
    \A r \in Creates :
        rq[r].pc = "done" =>
            /\ rq[r].status = 200
            /\ rq[r].savedOrder # << >>
            /\ \E o \in orders : o._id = rq[r].savedOrder[1]._id

\* C35: a handler invocation that has come to its end, with no store
\* operation or remote call of its own left to return, has sent exactly
\* one response; no invocation has sent more than one.
C35_ExactlyOneResponse ==
    \A r \in Reqs :
        /\ rq[r].responses <= 1
        /\ rq[r].pc = "done" => rq[r].responses = 1

\* The caller of the request holds a verified token with the admin role.
AdminCaller(q) ==
    IF Len(q.header) >= 2
    THEN q.header[2].valid /\ q.header[2].role = 3
    ELSE FALSE

\* The step is the one in which the RemoveOrder of slot r sends `code`.
RemoveAnswers(r, code) ==
    /\ rq'[r] # rq[r]
    /\ rq'[r].handler = "RemoveOrder" /\ rq'[r].pc = "done"
    /\ rq'[r].status = code

\* C36: the step in which a RemoveOrder answers 200 removes the order
\* with the given id and changes no other order; the step in which it
\* answers 400 or 404 leaves the store unchanged; and every request the
\* RemoveOrder handler runs for comes from a caller with the admin role.
C36_RemoveFrame ==
    [][ /\ \A r \in Reqs :
             /\ RemoveAnswers(r, 200) =>
                   orders' = { o \in orders : o._id # rq'[r].id }
             /\ (RemoveAnswers(r, 400) \/ RemoveAnswers(r, 404)) =>
                   orders' = orders
        /\ \A r \in Reqs :
             rq'[r].handler = "RemoveOrder" => AdminCaller(rq'[r]) ]_vars

\* An admin's RemoveOrder was answered 200 and removed its order while
\* another order stays stored.
C36_Witness ==
    \E r \in Reqs :
        /\ rq[r].handler = "RemoveOrder" /\ rq[r].status = 200
        /\ rq[r].id \in deleted
        /\ orders # {}
        /\ \A o \in orders : o._id # rq[r].id

\* C37: the stocks list of a createOrder answered 200 has one entry per
\* item of the request, in request order: the stock service's reply for
\* the product when the item has a productId, null when it has only a
\* serviceId.
C37_StocksPerItem ==
    \A r \in Creates :
        rq[r].status = 200 =>
            LET list == rq[r].body.items.list
                out == rq[r].updatedStocks
            IN  /\ Len(out) = Len(list)
                /\ \A i \in DOMAIN list :
                      IF list[i].productId # ""
                      THEN /\ out[i] # << >>
                           /\ out[i][1].productId = list[i].productId
                      ELSE out[i] = << >>

\* A service item followed by a product item: the list is null, then the
\* stock reply for the product.
C37_Witness ==
    \E r \in Creates :
        /\ rq[r].status = 200
        /\ Len(rq[r].updatedStocks) = 2
        /\ rq[r].body.items.list[1].productId = ""
        /\ rq[r].updatedStocks[1] = << >>
        /\ rq[r].updatedStocks[2] = <<StockData("P1", 2)>>

====
